---- MODULE Spec2Model ----
\* Model of neon_phal_plugin_skill_updater.SkillUpdater (src/neon_phal_plugin_skill_updater/__init__.py).
\* Strings that the code inspects character by character (versions) are sequences of
\* one-character strings; Python values True / False / None are the strings below.
EXTENDS Integers, Sequences, FiniteSets, TLC

\* ---------------------------------------------------------------- bounds
MaxVersions == 2      \* longest version list the package index returns
MaxDirs == 2          \* most configured skill directories

\* ---------------------------------------------------------------- values
PyTrue == "True"
PyFalse == "False"
PyNone == "None"
PyValues == {PyTrue, PyFalse, PyNone}

Truthy(v) == v = PyTrue

SkillIds == {"skill-a", "skill-b", "skill-c"}

Unknown == <<"u", "n", "k", "n", "o", "w", "n">>

Versions == { <<"1">>, <<"2">>, <<"2", "a">> }

\* 'a' in ver
Contains(s, c) == \E i \in DOMAIN s : s[i] = c

\* os.path.join(a, b)
join(a, b) == <<a, b>>

\* dataclass InstalledSkill, with its defaults
InstalledSkill(skill_id, pip_installed, pypi_name, installed_version, installed_path) ==
    [skill_id |-> skill_id,
     pip_installed |-> pip_installed,
     pypi_name |-> pypi_name,
     installed_version |-> installed_version,
     installed_path |-> installed_path,
     latest_version |-> Unknown]

\* InstalledSkill(skill, installed_path=...): every other field at its default
GitSkill(skill_id, installed_path) ==
    InstalledSkill(skill_id, FALSE, PyNone, Unknown, installed_path)

VARIABLES
    blacklist,      \* self.blacklist, read from configuration at construction
    entry_points,   \* pkg_resources.iter_entry_points('ovos.plugin.skill'), in order
    pypi,           \* the package index: project name -> answer of get_pypi_package_versions
    skill_dirs,     \* get_skill_directories(config_core), in order
    fs,             \* the file system: directory -> "missing" or its listing
    git_result,     \* what SkillEntry.update() returns for the skill at a path
    request,        \* the request handled last
    inventory,      \* the records built while handling it, as constructed
    checked,        \* the same records after the version checks
    calls,          \* the version checks and update routines it invoked, in order
    returned,       \* what the pip and the git check returned to it
    emitted,        \* the messages it emitted on the bus
    unit            \* the last direct call of a helper and its outcome

envVars == <<blacklist, entry_points, pypi, skill_dirs, fs, git_result>>
vars == <<blacklist, entry_points, pypi, skill_dirs, fs, git_result,
          request, inventory, checked, returned, calls, emitted, unit>>

\* ---------------------------------------------------------------- inventories
\* faulty variant: the blacklist is not consulted
pip_installed_skills_unfiltered(eps, bl) ==
    [i \in 1..Len(eps) |->
        InstalledSkill(eps[i].name, TRUE, eps[i].project_name, eps[i].version,
                       join(eps[i].module_path, eps[i].module_name))]

\* SkillUpdater.pip_installed_skills: one record per entry point whose name is not
\* blacklisted, in the order the entry points are iterated
pip_installed_skills(eps, bl) ==
    LET kept == SelectSeq(eps, LAMBDA ep : ep.name \notin bl)
    IN  [i \in 1..Len(kept) |->
            InstalledSkill(kept[i].name, TRUE, kept[i].project_name, kept[i].version,
                           join(kept[i].module_path, kept[i].module_name))]

\* os.path.isdir(skills_dir)
isdir(fsys, d) == fsys[d].exists

\* the inner loop of git_installed_skills over listdir(skills_dir)
ListSkillsDir(d, listing, bl) ==
    LET kept == SelectSeq(listing, LAMBDA e : e.name \notin bl /\ e.is_dir)
    IN  [i \in 1..Len(kept) |-> GitSkill(kept[i].name, join(d, kept[i].name))]

\* faulty variant: a missing directory ends the listing instead of being skipped
RECURSIVE git_installed_skills_abort(_, _, _)
git_installed_skills_abort(dirs, fsys, bl) ==
    IF dirs = <<>> THEN <<>>
    ELSE IF ~isdir(fsys, Head(dirs))
         THEN <<>>
         ELSE ListSkillsDir(Head(dirs), fsys[Head(dirs)].listing, bl)
              \o git_installed_skills_abort(Tail(dirs), fsys, bl)

\* SkillUpdater.git_installed_skills: a directory that does not exist is skipped
RECURSIVE git_installed_skills(_, _, _)
git_installed_skills(dirs, fsys, bl) ==
    IF dirs = <<>> THEN <<>>
    ELSE IF ~isdir(fsys, Head(dirs))
         THEN git_installed_skills(Tail(dirs), fsys, bl)
         ELSE ListSkillsDir(Head(dirs), fsys[Head(dirs)].listing, bl)
              \o git_installed_skills(Tail(dirs), fsys, bl)

\* ---------------------------------------------------------------- version check
Reverse(s) == [i \in 1..Len(s) |-> s[Len(s) + 1 - i]]

SetMin(S) == CHOOSE x \in S : \A y \in S : x <= y

\* faulty variant: the list is scanned forwards, so the first version without 'a' is taken
LatestVersion_forward(installed_ver, pypi_versions) ==
    IF Contains(installed_ver, "a")
    THEN pypi_versions[Len(pypi_versions)]
    ELSE LET stable == {i \in DOMAIN pypi_versions : ~Contains(pypi_versions[i], "a")}
         IN  IF stable = {} THEN pypi_versions[1] ELSE pypi_versions[SetMin(stable)]

\* lines 171-180 of _check_pip_skill_update, for a non-empty version list
LatestVersion(installed_ver, pypi_versions) ==
    IF Contains(installed_ver, "a")
    THEN pypi_versions[Len(pypi_versions)]
    ELSE LET rev == Reverse(pypi_versions)
             stable == {i \in DOMAIN rev : ~Contains(rev[i], "a")}
         IN  IF stable = {} THEN rev[Len(rev)] ELSE rev[SetMin(stable)]

Raise(exc, skill) == [raised |-> TRUE, exc |-> exc, value |-> PyNone, skill |-> skill]

\* faulty variant: the installed version is compared with the last version of the list
check_pip_skill_update_vs_last(skill, answer) ==
    IF ~skill.pip_installed THEN Raise("RuntimeError", skill)
    ELSE IF ~answer.ok THEN Raise("IndexUnavailable", skill)
    ELSE IF answer.versions = <<>> THEN Raise("IndexError", skill)
    ELSE LET latest_ver == LatestVersion(skill.installed_version, answer.versions)
         IN  [raised |-> FALSE, exc |-> PyNone,
              value |-> IF skill.installed_version # answer.versions[Len(answer.versions)]
                        THEN PyTrue ELSE PyFalse,
              skill |-> [skill EXCEPT !.latest_version = latest_ver]]

\* faulty variant: no check that the skill is pip-installed
check_pip_skill_update_unguarded(skill, answer) ==
    IF ~answer.ok THEN Raise("IndexUnavailable", skill)
    ELSE IF answer.versions = <<>> THEN Raise("IndexError", skill)
    ELSE LET latest_ver == LatestVersion(skill.installed_version, answer.versions)
         IN  [raised |-> FALSE, exc |-> PyNone,
              value |-> IF skill.installed_version # latest_ver THEN PyTrue ELSE PyFalse,
              skill |-> [skill EXCEPT !.latest_version = latest_ver]]

\* faulty variant: the resolved version is also written to installed_version
check_pip_skill_update_clobber(skill, answer) ==
    IF ~skill.pip_installed THEN Raise("RuntimeError", skill)
    ELSE IF ~answer.ok THEN Raise("IndexUnavailable", skill)
    ELSE IF answer.versions = <<>> THEN Raise("IndexError", skill)
    ELSE LET latest_ver == LatestVersion(skill.installed_version, answer.versions)
         IN  [raised |-> FALSE, exc |-> PyNone,
              value |-> IF skill.installed_version # latest_ver THEN PyTrue ELSE PyFalse,
              skill |-> [skill EXCEPT !.latest_version = latest_ver,
                                      !.installed_version = latest_ver]]

\* SkillUpdater._check_pip_skill_update(skill); answer is what
\* get_pypi_package_versions(skill.pypi_name) does: it raises or returns a list
check_pip_skill_update(skill, answer) ==
    IF ~skill.pip_installed THEN Raise("RuntimeError", skill)
    ELSE IF ~answer.ok THEN Raise("IndexUnavailable", skill)
    ELSE IF answer.versions = <<>> THEN Raise("IndexError", skill)
    ELSE LET latest_ver == LatestVersion(skill.installed_version, answer.versions)
         IN  [raised |-> FALSE, exc |-> PyNone,
              value |-> IF skill.installed_version # latest_ver THEN PyTrue ELSE PyFalse,
              skill |-> [skill EXCEPT !.latest_version = latest_ver]]

Call(fn, skill) == [fn |-> fn, skill_id |-> skill.skill_id, path |-> skill.installed_path]

\* faulty variant: the try wraps the loop, so the first failing check ends the batch
RECURSIVE check_pip_updates_abort(_, _)
check_pip_updates_abort(skills, index) ==
    IF skills = <<>> THEN [updatable |-> <<>>, after |-> <<>>, calls |-> <<>>]
    ELSE LET r == check_pip_skill_update(Head(skills), index[Head(skills).pypi_name])
             rest == IF r.raised
                     THEN [updatable |-> <<>>, after |-> Tail(skills), calls |-> <<>>]
                     ELSE check_pip_updates_abort(Tail(skills), index)
         IN  [updatable |-> (IF ~r.raised /\ Truthy(r.value) THEN <<r.skill>> ELSE <<>>)
                            \o rest.updatable,
              after |-> <<r.skill>> \o rest.after,
              calls |-> <<Call("_check_pip_skill_update", Head(skills))>> \o rest.calls]

\* SkillUpdater.check_pip_updates over the inventory `skills`: updatable is the list
\* it returns, after is every record as the checks left it
RECURSIVE check_pip_updates(_, _)
check_pip_updates(skills, index) ==
    IF skills = <<>> THEN [updatable |-> <<>>, after |-> <<>>, calls |-> <<>>]
    ELSE LET r == check_pip_skill_update(Head(skills), index[Head(skills).pypi_name])
             rest == check_pip_updates(Tail(skills), index)
         IN  [updatable |-> (IF ~r.raised /\ Truthy(r.value) THEN <<r.skill>> ELSE <<>>)
                            \o rest.updatable,
              after |-> <<r.skill>> \o rest.after,
              calls |-> <<Call("_check_pip_skill_update", Head(skills))>> \o rest.calls]

\* faulty variant: only the skills whose versions differ are kept, as for pip
check_git_updates_filtered(dirs, fsys, bl) ==
    SelectSeq(git_installed_skills(dirs, fsys, bl),
              LAMBDA sk : sk.installed_version # sk.latest_version)

\* SkillUpdater.check_git_updates: the inventory, unchecked
check_git_updates(dirs, fsys, bl) == git_installed_skills(dirs, fsys, bl)

\* ---------------------------------------------------------------- updates
\* SkillUpdater._update_skill_pip: False when already at the latest version, else
\* the function body ends and None is returned
update_skill_pip(skill) ==
    IF skill.latest_version = skill.installed_version THEN PyFalse ELSE PyNone

\* SkillUpdater._update_skill_git: whatever SkillEntry.update() returns for the path
update_skill_git(skill, results) == results[skill.installed_path]

\* faulty variant: an `and` chain, whose value is the first falsy item itself
all_and(vals) ==
    LET falsy == {i \in DOMAIN vals : ~Truthy(vals[i])}
    IN  IF falsy = {} THEN [value |-> PyTrue, consumed |-> Len(vals)]
        ELSE [value |-> vals[SetMin(falsy)], consumed |-> SetMin(falsy)]

\* Python all() over a generator: items are produced until the first falsy one
all(vals) ==
    LET falsy == {i \in DOMAIN vals : ~Truthy(vals[i])}
    IN  IF falsy = {} THEN [value |-> PyTrue, consumed |-> Len(vals)]
        ELSE [value |-> PyFalse, consumed |-> SetMin(falsy)]

\* ---------------------------------------------------------------- handlers
NoMessage == [msg_type |-> "none", data |-> [do_pip |-> "absent", do_git |-> "absent"]]

CheckMessage ==
    [msg_type |-> "neon.skill_updater.check_updates",
     data |-> [do_pip |-> "absent", do_git |-> "absent"]]

UpdateMessage(do_pip, do_git) ==
    [msg_type |-> "neon.skill_updater.update_skills",
     data |-> [do_pip |-> do_pip, do_git |-> do_git]]

\* message.data.get(key) or False
Selected(v) == v = PyTrue

\* message.response(data)
Response(message, data) == [msg_type |-> message.msg_type, kind |-> "response", data |-> data]

SubSeqTo(s, n) == [i \in 1..n |-> s[i]]

CallsOf(fn, skills) == [i \in 1..Len(skills) |-> Call(fn, skills[i])]

\* SkillUpdater.check_for_updates(message): what the handler builds, calls and emits
check_for_updates(message, bl, eps, index, dirs, fsys) ==
    LET pip_inv == pip_installed_skills(eps, bl)
        pip == check_pip_updates(pip_inv, index)
        git == check_git_updates(dirs, fsys, bl)
    IN  [inventory |-> [pip |-> pip_inv, git |-> git],
         checked |-> [pip |-> pip.after, git |-> git],
         returned |-> [pip |-> pip.updatable, git |-> git],
         calls |-> pip.calls,
         emitted |-> <<Response(message, [pip |-> pip.updatable, git |-> git])>>]

\* the pip branch of do_skill_updates (lines 131-136)
UpdatePipBranch(bl, eps, index) ==
    LET pip_inv == pip_installed_skills(eps, bl)
        pip == check_pip_updates(pip_inv, index)
        vals == [i \in 1..Len(pip.updatable) |-> update_skill_pip(pip.updatable[i])]
        st == all(vals)
    IN  [inventory |-> pip_inv, checked |-> pip.after, returned |-> pip.updatable,
         calls |-> pip.calls
                   \o CallsOf("_update_skill_pip", SubSeqTo(pip.updatable, st.consumed)),
         status |-> st.value]

\* the git branch of do_skill_updates (lines 137-142)
UpdateGitBranch(bl, dirs, fsys, results) ==
    LET git == check_git_updates(dirs, fsys, bl)
        vals == [i \in 1..Len(git) |-> update_skill_git(git[i], results)]
        st == all(vals)
    IN  [inventory |-> git, checked |-> git, returned |-> git,
         calls |-> CallsOf("_update_skill_git", SubSeqTo(git, st.consumed)),
         status |-> st.value]

SkippedBranch ==
    [inventory |-> <<>>, checked |-> <<>>, returned |-> <<>>, calls |-> <<>>,
     status |-> PyNone]

\* SkillUpdater.do_skill_updates(message); message = NoMessage is the call without one
do_skill_updates(message, bl, eps, index, dirs, fsys, results) ==
    LET update_pip == IF message = NoMessage THEN TRUE ELSE Selected(message.data.do_pip)
        update_git == IF message = NoMessage THEN TRUE ELSE Selected(message.data.do_git)
        pip == IF update_pip THEN UpdatePipBranch(bl, eps, index) ELSE SkippedBranch
        git == IF update_git THEN UpdateGitBranch(bl, dirs, fsys, results)
               ELSE SkippedBranch
    IN  [inventory |-> [pip |-> pip.inventory, git |-> git.inventory],
         checked |-> [pip |-> pip.checked, git |-> git.checked],
         returned |-> [pip |-> pip.returned, git |-> git.returned],
         calls |-> pip.calls \o git.calls,
         emitted |-> IF message = NoMessage THEN <<>>
                     ELSE <<Response(message, [pip_status |-> pip.status,
                                               git_status |-> git.status])>>]

\* ---------------------------------------------------------------- environment
PipIds == {"skill-a", "skill-b"}
DirEntryNames == {"skill-b", "skill-c"}
DirNames == {"/opt/skills", "/home/skills"}

PkgName == [id \in SkillIds |->
               CASE id = "skill-a" -> "neon-skill-a"
                 [] id = "skill-b" -> "neon-skill-b"
                 [] OTHER -> "neon-skill-c"]
ModuleName == [id \in SkillIds |->
               CASE id = "skill-a" -> "skill_a"
                 [] id = "skill-b" -> "skill_b"
                 [] OTHER -> "skill_c"]
Packages == {PkgName[id] : id \in PipIds}

\* an entry point of group ovos.plugin.skill with its distribution
EntryPoint(id, ver) ==
    [name |-> id, project_name |-> PkgName[id], version |-> ver,
     module_path |-> "site-packages", module_name |-> ModuleName[id]]

InstalledVersions == { <<"1">>, <<"2", "a">> }

\* the installed entry points: each skill at most once, in either order
EntryPointLists ==
    {<<>>}
    \cup {<<EntryPoint(i, v)>> : i \in PipIds, v \in InstalledVersions}
    \cup {<<EntryPoint(i, v), EntryPoint(j, w)>> :
             <<i, j>> \in {ij \in PipIds \X PipIds : ij[1] # ij[2]},
             <<v, w>> \in InstalledVersions \X InstalledVersions}

Raises == [ok |-> FALSE, versions |-> <<>>]
Returns(vs) == [ok |-> TRUE, versions |-> vs]

\* what the index answers for one package
IndexAnswers ==
    {Raises, Returns(<<>>), Returns(<< <<"1">> >>), Returns(<< <<"1">>, <<"2">> >>),
     Returns(<< <<"1">>, <<"2", "a">> >>)}

File(name) == [name |-> name, is_dir |-> FALSE]
Dir(name) == [name |-> name, is_dir |-> TRUE]
Missing == [exists |-> FALSE, listing |-> <<>>]
Existing(listing) == [exists |-> TRUE, listing |-> listing]

DirStates ==
    {Missing,
     Existing(<<Dir("skill-b"), Dir("skill-c")>>),
     Existing(<<Dir("skill-c"), File("skill-b")>>)}

SkillDirLists == UNION {[1..n -> DirNames] : n \in 0..MaxDirs}

SkillPaths == {join(d, n) : d \in DirNames, n \in DirEntryNames}

\* SkillEntry.update() is the same for a skill wherever it is installed
GitResults ==
    {[p \in SkillPaths |-> r[p[2]]] : r \in [DirEntryNames -> {PyTrue, PyFalse}]}

Blacklists == {{}} \cup {{id} : id \in SkillIds}

NoUnit == [fn |-> "unused"]

NoRequest == [msg_type |-> "idle", data |-> [do_pip |-> "absent", do_git |-> "absent"]]

Idle ==
    /\ request = NoRequest
    /\ inventory = [pip |-> <<>>, git |-> <<>>]
    /\ checked = [pip |-> <<>>, git |-> <<>>]
    /\ returned = [pip |-> <<>>, git |-> <<>>]
    /\ calls = <<>>
    /\ emitted = <<>>

\* A representative source-installed side: one directory with two skills, one missing
GitBase ==
    /\ skill_dirs = <<"/opt/skills", "/home/skills">>
    /\ fs = [d \in DirNames |->
                IF d = "/opt/skills" THEN Existing(<<Dir("skill-b"), Dir("skill-c")>>)
                ELSE Missing]
    /\ git_result \in {r \in GitResults : r[join("/opt/skills", "skill-c")] = PyTrue}

\* A representative package-manager side: two skills with an update each, the index
\* unreachable for the first or not
PipBase ==
    /\ entry_points = <<EntryPoint("skill-a", <<"1">>), EntryPoint("skill-b", <<"2", "a">>)>>
    /\ pypi \in {ix \in [Packages -> {Raises, Returns(<< <<"1">>, <<"2">> >>)}] :
                    ix[PkgName["skill-b"]].ok}

\* SkillUpdater.__init__: the blacklist is read once; nothing is handled yet.
\* Either side of the environment ranges over all its values while the other takes
\* one of its representatives.
Init ==
    /\ blacklist \in Blacklists
    /\ \/ /\ entry_points \in EntryPointLists
          /\ pypi \in [Packages -> IndexAnswers]
          /\ GitBase
       \/ /\ PipBase
          /\ skill_dirs \in SkillDirLists
          /\ fs \in [DirNames -> DirStates]
          /\ git_result \in GitResults
    /\ Idle
    /\ unit = NoUnit

Payloads == {"absent", PyTrue, PyFalse}

\* bus.on("neon.skill_updater.check_updates", self.check_for_updates)
CheckForUpdates ==
    \E r \in {check_for_updates(CheckMessage, blacklist, entry_points, pypi,
                                 skill_dirs, fs)} :
        /\ request' = CheckMessage
        /\ inventory' = r.inventory
        /\ checked' = r.checked
        /\ returned' = r.returned
        /\ calls' = r.calls
        /\ emitted' = r.emitted
        /\ UNCHANGED <<envVars, unit>>

\* bus.on("neon.skill_updater.update_skills", self.do_skill_updates)
DoSkillUpdates ==
    \E p \in Payloads, g \in Payloads :
        \E r \in {do_skill_updates(UpdateMessage(p, g), blacklist, entry_points, pypi,
                                    skill_dirs, fs, git_result)} :
            /\ request' = UpdateMessage(p, g)
            /\ inventory' = r.inventory
            /\ checked' = r.checked
            /\ returned' = r.returned
            /\ calls' = r.calls
            /\ emitted' = r.emitted
            /\ UNCHANGED <<envVars, unit>>

\* do_skill_updates() called without a message
DoSkillUpdatesNoMessage ==
    \E r \in {do_skill_updates(NoMessage, blacklist, entry_points, pypi,
                                skill_dirs, fs, git_result)} :
        /\ request' = NoMessage
        /\ inventory' = r.inventory
        /\ checked' = r.checked
        /\ returned' = r.returned
        /\ calls' = r.calls
        /\ emitted' = r.emitted
        /\ UNCHANGED <<envVars, unit>>

Next == CheckForUpdates \/ DoSkillUpdates \/ DoSkillUpdatesNoMessage

Spec == Init /\ [][Next]_vars

\* ---------------------------------------------------------------- direct calls
\* The helpers called on their own, on any record and any answer of the index.
UnitVersions == Versions \cup { <<"1", "a">> }

VersionLists == UNION {[1..n -> UnitVersions] : n \in 0..MaxVersions}

UnitAnswers == {Raises} \cup {Returns(vs) : vs \in VersionLists}

UnitSkills ==
    {[InstalledSkill("skill-a", TRUE, PkgName["skill-a"], v,
                     join("site-packages", ModuleName["skill-a"]))
         EXCEPT !.latest_version = l] :
        v \in UnitVersions \cup {Unknown}, l \in UnitVersions \cup {Unknown}}
    \cup
    {[GitSkill("skill-c", join("/opt/skills", "skill-c"))
         EXCEPT !.installed_version = v, !.latest_version = l] :
        v \in UnitVersions \cup {Unknown}, l \in UnitVersions \cup {Unknown}}

\* one record and one answer of the index are drawn; no helper has been called yet
InitUnit ==
    /\ blacklist = {}
    /\ PipBase
    /\ GitBase
    /\ Idle
    /\ \E skill \in UnitSkills, answer \in UnitAnswers :
          unit = [fn |-> "none", skill |-> skill, answer |-> answer, before |-> skill,
                  raised |-> FALSE, value |-> PyNone]

\* SkillUpdater._check_pip_skill_update(unit.skill) with the index giving unit.answer
CallCheckPipSkillUpdate ==
    LET r == check_pip_skill_update(unit.skill, unit.answer)
    IN  /\ unit' = [unit EXCEPT !.fn = "_check_pip_skill_update", !.before = unit.skill,
                                !.skill = r.skill, !.raised = r.raised,
                                !.value = r.value]
        /\ UNCHANGED <<envVars, request, inventory, checked, returned, calls, emitted>>

\* SkillUpdater._update_skill_pip(unit.skill)
CallUpdateSkillPip ==
    /\ unit' = [unit EXCEPT !.fn = "_update_skill_pip", !.before = unit.skill,
                            !.raised = FALSE, !.value = update_skill_pip(unit.skill)]
    /\ UNCHANGED <<envVars, request, inventory, checked, returned, calls, emitted>>

NextUnit == CallCheckPipSkillUpdate \/ CallUpdateSkillPip

SpecUnit == InitUnit /\ [][NextUnit]_vars

\* ---------------------------------------------------------------- properties
IsCheck == request = CheckMessage
IsUpdate == request.msg_type = "neon.skill_updater.update_skills"
IsDirectUpdate == request = NoMessage
PipRan == IsCheck \/ IsDirectUpdate \/ (IsUpdate /\ Selected(request.data.do_pip))
GitRan == IsCheck \/ IsDirectUpdate \/ (IsUpdate /\ Selected(request.data.do_git))

CallsTo(fn) == SelectSeq(calls, LAMBDA c : c.fn = fn)
Indices(s) == [i \in 1..Len(s) |-> i]

\* the check of one skill on its own, against the index as it is
CheckAlone(skill) == check_pip_skill_update(skill, pypi[skill.pypi_name])
UpdatableAlone(skill) == ~CheckAlone(skill).raised /\ Truthy(CheckAlone(skill).value)

\* C1: a failing version check of one pip-installed skill does not abort the batch:
\* every skill of the inventory is checked, and check_pip_updates returns exactly the
\* skills, in inventory order, whose own check completed and reported an update.
C1_BatchSurvivesFailures ==
    PipRan =>
        LET inv == inventory.pip
            good == SelectSeq(Indices(inv), LAMBDA i : UpdatableAlone(inv[i]))
        IN  /\ CallsTo("_check_pip_skill_update") = CallsOf("_check_pip_skill_update", inv)
            /\ returned.pip = [k \in 1..Len(good) |-> CheckAlone(inv[good[k]]).skill]

\* a check failed and a later skill of the inventory was still returned
C1_Witness ==
    /\ PipRan
    /\ \E i, j \in DOMAIN inventory.pip :
          /\ i < j
          /\ CheckAlone(inventory.pip[i]).raised
          /\ \E k \in DOMAIN returned.pip :
                returned.pip[k].skill_id = inventory.pip[j].skill_id

Ids(skills) == {skills[i].skill_id : i \in DOMAIN skills}

\* C2: no blacklisted skill is in the pip inventory, the git inventory, a list a check
\* returned or a response carries, or among the skills passed to a version check or
\* an update routine.
C2_BlacklistExcluded ==
    /\ Ids(inventory.pip) \cap blacklist = {}
    /\ Ids(inventory.git) \cap blacklist = {}
    /\ Ids(returned.pip) \cap blacklist = {}
    /\ Ids(returned.git) \cap blacklist = {}
    /\ Ids(calls) \cap blacklist = {}
    /\ IsCheck =>
          \A m \in DOMAIN emitted :
              /\ Ids(emitted[m].data.pip) \cap blacklist = {}
              /\ Ids(emitted[m].data.git) \cap blacklist = {}

\* a blacklisted skill is installed both ways and a check request was handled
C2_Witness ==
    /\ IsCheck
    /\ \E b \in blacklist :
          /\ \E i \in DOMAIN entry_points : entry_points[i].name = b
          /\ \E i \in DOMAIN skill_dirs :
                /\ fs[skill_dirs[i]].exists
                /\ \E e \in DOMAIN fs[skill_dirs[i]].listing :
                      fs[skill_dirs[i]].listing[e] = Dir(b)
    /\ inventory.pip # <<>>
    /\ inventory.git # <<>>

CheckCalled == unit.fn = "_check_pip_skill_update"
UpdatePipCalled == unit.fn = "_update_skill_pip"

\* C3: for a pip-installed skill and a non-empty version list, _check_pip_skill_update
\* returns true iff the installed version differs from the latest version it resolved.
C3_TrueIffVersionsDiffer ==
    (CheckCalled /\ unit.before.pip_installed /\ unit.answer.ok
        /\ unit.answer.versions # <<>>) =>
        /\ ~unit.raised
        /\ unit.value \in {PyTrue, PyFalse}
        /\ (unit.value = PyTrue) <=> (unit.before.installed_version # unit.skill.latest_version)

\* the check returned false although the last version of the list is another one
C3_Witness ==
    /\ CheckCalled /\ unit.before.pip_installed /\ unit.answer.ok
    /\ Len(unit.answer.versions) = 2
    /\ unit.value = PyFalse
    /\ unit.answer.versions[2] # unit.before.installed_version

\* C4, as claimed: _update_skill_pip raises for a skill that is not pip-installed.
C4_UpdatePipRaises ==
    (UpdatePipCalled /\ ~unit.before.pip_installed) => unit.raised

\* C4, amended: the error is raised by the version check; _update_skill_pip does not
\* raise for such a skill, it returns false or null.
C4_CheckRaises ==
    /\ (CheckCalled /\ ~unit.before.pip_installed) =>
          (unit.raised /\ unit.skill = unit.before)
    /\ (UpdatePipCalled /\ ~unit.before.pip_installed) =>
          (~unit.raised /\ unit.value \in {PyFalse, PyNone})

\* the version check was called on a source-installed record with a usable index
C4_Witness ==
    /\ CheckCalled /\ ~unit.before.pip_installed
    /\ unit.answer.ok /\ unit.answer.versions # <<>>
    /\ unit.raised

C6_OneCheckResponse ==
    IsCheck =>
        /\ Len(emitted) = 1
        /\ emitted[1].kind = "response"
        /\ DOMAIN emitted[1].data = {"pip", "git"}
        /\ emitted[1].data.git = git_installed_skills(skill_dirs, fs, blacklist)
        /\ emitted[1].data.pip =
              check_pip_updates(pip_installed_skills(entry_points, blacklist), pypi).updatable
        /\ emitted[1].data.pip = returned.pip
        /\ \A i \in DOMAIN emitted[1].data.pip :
              emitted[1].data.pip[i].installed_version # emitted[1].data.pip[i].latest_version

\* a check response with an updatable pip skill and source-installed skills
C6_Witness ==
    /\ IsCheck
    /\ Len(emitted) = 1
    /\ emitted[1].data.pip # <<>>
    /\ Len(emitted[1].data.git) >= 2

\* the entries of the configured, existing directories that are to be listed
ListedEntries ==
    UNION {{<<i, e>> : e \in {e \in DOMAIN fs[skill_dirs[i]].listing :
                                 /\ fs[skill_dirs[i]].listing[e].is_dir
                                 /\ fs[skill_dirs[i]].listing[e].name \notin blacklist}} :
           i \in {i \in DOMAIN skill_dirs : fs[skill_dirs[i]].exists}}

\* C7: a configured directory that does not exist is skipped: it contributes no skill,
\* and every non-blacklisted subdirectory of the existing configured directories is
\* listed, with pip_installed false and installed_path that subdirectory.
C7_MissingDirSkipped ==
    GitRan =>
        LET inv == inventory.git
        IN  /\ \A ie \in ListedEntries :
                  LET d == skill_dirs[ie[1]]
                      n == fs[d].listing[ie[2]].name
                  IN  \E k \in DOMAIN inv :
                          /\ inv[k].skill_id = n
                          /\ inv[k].pip_installed = FALSE
                          /\ inv[k].installed_path = join(d, n)
            /\ \A k \in DOMAIN inv :
                  /\ inv[k].pip_installed = FALSE
                  /\ \E ie \in ListedEntries :
                        inv[k].installed_path =
                            join(skill_dirs[ie[1]], fs[skill_dirs[ie[1]]].listing[ie[2]].name)
            /\ Len(inv) = Cardinality(ListedEntries)

\* a missing directory is configured before an existing one whose skills are listed
C7_Witness ==
    /\ GitRan
    /\ \E i, j \in DOMAIN skill_dirs :
          /\ i < j
          /\ ~fs[skill_dirs[i]].exists
          /\ fs[skill_dirs[j]].exists
          /\ \E k \in DOMAIN inventory.git :
                inventory.git[k].installed_path[1] = skill_dirs[j]

C8_Records ==
    request # NoRequest =>
        /\ \A i \in DOMAIN inventory.pip : inventory.pip[i].latest_version = Unknown
        /\ \A i \in DOMAIN inventory.git : inventory.git[i].latest_version = Unknown
        /\ Len(checked.pip) = Len(inventory.pip)
        /\ \A i \in DOMAIN checked.pip :
              /\ checked.pip[i] =
                    [inventory.pip[i] EXCEPT !.latest_version = checked.pip[i].latest_version]
              /\ CheckAlone(inventory.pip[i]).raised =>
                    checked.pip[i].latest_version = Unknown
        /\ checked.git = inventory.git
        /\ returned.git = inventory.git
        /\ IsCheck => \A i \in DOMAIN emitted[1].data.git :
                          emitted[1].data.git[i].latest_version = Unknown

\* C8: latest_version is "unknown" from construction until a version check resolves
\* it; the check changes only that field of that record, no other record and not the
\* blacklist; source-installed records keep latest_version "unknown".
C8_OnlyLatestVersionChanges == [](C8_Records) /\ [][blacklist' = blacklist]_vars

\* a check resolved one record, failed on another, and source-installed skills exist
C8_Witness ==
    /\ IsCheck
    /\ \E i, j \in DOMAIN checked.pip :
          /\ checked.pip[i].latest_version # Unknown
          /\ CheckAlone(inventory.pip[j]).raised
    /\ inventory.git # <<>>

SetMax(S) == CHOOSE x \in S : \A y \in S : x >= y

\* C9: the resolved latest version is a member of the version list; it is the last
\* element when the installed version contains 'a', and otherwise the last element
\* without 'a' when there is one, so it is then never an alpha version.
C9_LatestFromList ==
    (CheckCalled /\ ~unit.raised) =>
        LET vs == unit.answer.versions
            latest == unit.skill.latest_version
            stable == {i \in DOMAIN vs : ~Contains(vs[i], "a")}
        IN  /\ \E i \in DOMAIN vs : vs[i] = latest
            /\ Contains(unit.before.installed_version, "a") => latest = vs[Len(vs)]
            /\ (~Contains(unit.before.installed_version, "a") /\ stable # {}) =>
                  (latest = vs[SetMax(stable)] /\ ~Contains(latest, "a"))

\* a skill on a stable version, a list ending in an alpha version: the stable one wins
C9_Witness ==
    /\ CheckCalled /\ ~unit.raised
    /\ ~Contains(unit.before.installed_version, "a")
    /\ Len(unit.answer.versions) = 2
    /\ Contains(unit.answer.versions[2], "a")
    /\ unit.skill.latest_version = unit.answer.versions[1]
    /\ ~Contains(unit.skill.latest_version, "a")

\* C10, as claimed: each selected kind's update routine is invoked once for every skill
\* its check returned, and the status is true iff every one of them returned true.
C10_EverySkillUpdated ==
    (IsUpdate \/ IsDirectUpdate) =>
        /\ PipRan =>
              /\ CallsTo("_update_skill_pip") = CallsOf("_update_skill_pip", returned.pip)
              /\ IsUpdate =>
                    ((emitted[1].data.pip_status = PyTrue) <=>
                        \A i \in DOMAIN returned.pip :
                            update_skill_pip(returned.pip[i]) = PyTrue)
        /\ GitRan =>
              /\ CallsTo("_update_skill_git") = CallsOf("_update_skill_git", returned.git)
              /\ IsUpdate =>
                    ((emitted[1].data.git_status = PyTrue) <=>
                        \A i \in DOMAIN returned.git :
                            update_skill_git(returned.git[i], git_result) = PyTrue)

====
